---- MODULE Spec2Model ----
(***************************************************************************)
(* Model of utilities/asteroids_api_utils.py: input validation, the        *)
(* approach ranker, the page loop of nearest_misses with its rate-limit    *)
(* branch, its alias asteroid_closest_approach and the week loop of        *)
(* month_closest_approaches, run against a remote API whose responses are  *)
(* chosen by the environment and replayed identically on later calls.      *)
(***************************************************************************)
EXTENDS Integers, Sequences, FiniteSets, TLC

VARIABLES
    api,                 \* responses the remote API has given so far (replayed on later calls)
    call,                \* the call in progress: entry point and its arguments
    pc,                  \* position inside the call
    page_num,            \* loop variable of nearest_misses / index into start_days
    page,                \* local: result of the last fetch (None or a body)
    remaining_requests,  \* local: X-RateLimit-Remaining of the last fetch
    misses,              \* local accumulator: the list built so far
    fetches,             \* network calls issued by the call in progress, in order
    sleeps,              \* arguments of time.sleep evaluated by the call in progress, in order
    element_count,       \* local of month_closest_approaches
    log,                 \* lines printed by the call in progress, in order
    outcome,             \* how the call ended: returned, or the exception raised
    result,              \* value returned by the call
    history,             \* the calls already completed in this session
    heap                 \* the close-approach record objects alive, by address

vars == <<api, call, pc, page_num, page, remaining_requests, misses, fetches,
          sleeps, element_count, log, outcome, result, history, heap>>

-----------------------------------------------------------------------------
(* Python values.  A value is a record of its type, its number and its      *)
(* characters.  Floats carry their number in tenths; NaN is a float.        *)

PyInt(i)   == [type |-> "int",      val |-> i, str |-> <<>>]
PyBool(b)  == [type |-> "bool",     val |-> IF b THEN 1 ELSE 0, str |-> <<>>]
PyFloat(t) == [type |-> "float",    val |-> t, str |-> <<>>]
PyNaN      == [type |-> "float",    val |-> 0, str |-> <<"n", "a", "n">>]
PyStr(s)   == [type |-> "str",      val |-> 0, str |-> s]
PyNone     == [type |-> "NoneType", val |-> 0, str |-> <<>>]

IsNaN(v) == v.type = "float" /\ v.str # <<>>

\* bool is a subclass of int
Bases(t) == IF t = "bool" THEN {"bool", "int"} ELSE {t}

\* the number of a numeric value, in tenths
Tenths(v) == IF v.type = "float" THEN v.val ELSE 10 * v.val

\* Python's < and > on numbers: every comparison with NaN is false
PyLess(a, b)    == ~IsNaN(a) /\ ~IsNaN(b) /\ Tenths(a) < Tenths(b)
PyGreater(a, b) == PyLess(b, a)

-----------------------------------------------------------------------------
(* Module constants                                                         *)

TYPES_N     == {"int"}
TYPES_SLEEP == {"int", "float"}
TYPES_WAIT  == {"bool"}
TYPES_DATE  == {"str"}
TYPES_SPLIT == {"str"}

MIN_SLEEP    == 0
MAX_SLEEP    == 10000
MIN_N_MISSES == 1
MAX_N_MISSES == 100
MIN_N_PAGES  == 1
MAX_N_PAGES  == 1500
LEN_YEAR     == 4
LEN_MONTH    == 2
MIN_MONTH    == 1
MAX_MONTH    == 12
GOOD         == 200

\* the names bound at module level; SECONDS_IN_MINUTE is used but never bound
ModuleNames ==
    {"TYPES_N", "TYPES_SLEEP", "TYPES_WAIT", "TYPES_DATE", "TYPES_SPLIT",
     "MIN_SLEEP", "MAX_SLEEP", "MIN_N_MISSES", "MAX_N_MISSES", "MIN_N_PAGES",
     "MAX_N_PAGES", "LEN_YEAR", "LEN_MONTH", "MIN_MONTH", "MAX_MONTH",
     "DATE_STR_ERR", "decode_status", "GOOD", "MINUTES_IN_HOUR",
     "neo_endpoint", "feed_endpoint", "API_KEY"}

-----------------------------------------------------------------------------
(* Exceptions                                                               *)

NoError == [exc |-> "none", name |-> "", msg |-> ""]
TypeError(name)  == [exc |-> "TypeError",  name |-> name, msg |-> "not of an expected type"]
RangeError(name) == [exc |-> "ValueError", name |-> name, msg |-> "not in accepted range"]
DATE_STR_ERR     == [exc |-> "ValueError", name |-> "", msg |-> "Invalid date string format"]
EmptySeparator   == [exc |-> "ValueError", name |-> "", msg |-> "empty separator"]
IndexError       == [exc |-> "IndexError", name |-> "", msg |-> "list index out of range"]
NameError(name)  == [exc |-> "NameError",  name |-> name, msg |-> "name is not defined"]
NoneSubscript    == [exc |-> "TypeError",  name |-> "", msg |-> "'NoneType' object is not subscriptable"]

\* statements run in order: the first exception raised is the one that leaves
RECURSIVE FirstError(_)
FirstError(errs) ==
    IF errs = <<>> THEN NoError
    ELSE IF Head(errs) # NoError THEN Head(errs)
    ELSE FirstError(Tail(errs))

-----------------------------------------------------------------------------
(* Strings are sequences of characters                                      *)

Digits == {"0", "1", "2", "3", "4", "5", "6", "7", "8", "9"}

DigitVal(c) ==
    CASE c = "0" -> 0 [] c = "1" -> 1 [] c = "2" -> 2 [] c = "3" -> 3
      [] c = "4" -> 4 [] c = "5" -> 5 [] c = "6" -> 6 [] c = "7" -> 7
      [] c = "8" -> 8 [] c = "9" -> 9 [] OTHER -> 0

\* s[i..] starts with tok
StartsAt(s, tok, i) ==
    /\ i + Len(tok) - 1 <= Len(s)
    /\ \A k \in 1..Len(tok) : s[i + k - 1] = tok[k]

\* tok in s
Contains(s, tok) == \E i \in 1..(Len(s) + 1) : StartsAt(s, tok, i)

\* s.split(tok) for a non-empty tok: cut at each occurrence, left to right
RECURSIVE Split(_, _)
Split(s, tok) ==
    IF ~Contains(s, tok) THEN <<s>>
    ELSE LET i == CHOOSE j \in 1..Len(s) :
                     StartsAt(s, tok, j) /\ \A k \in 1..(j - 1) : ~StartsAt(s, tok, k)
         IN  <<SubSeq(s, 1, i - 1)>> \o Split(SubSeq(s, i + Len(tok), Len(s)), tok)

\* s.strip() for the blank
RECURSIVE Strip(_)
Strip(s) ==
    IF s = <<>> THEN s
    ELSE IF Head(s) = " " THEN Strip(Tail(s))
    ELSE IF s[Len(s)] = " " THEN Strip(SubSeq(s, 1, Len(s) - 1))
    ELSE s

RECURSIVE DigitsValue(_, _)
DigitsValue(s, acc) ==
    IF s = <<>> THEN acc
    ELSE IF Head(s) = "_" THEN DigitsValue(Tail(s), acc)
    ELSE DigitsValue(Tail(s), 10 * acc + DigitVal(Head(s)))

\* int(s): blanks around, an optional sign, digits with single underscores between them
ParseInt(s) ==
    LET t    == Strip(s)
        sgn  == t # <<>> /\ Head(t) \in {"+", "-"}
        body == IF sgn THEN Tail(t) ELSE t
        ok   == /\ body # <<>>
                /\ \A k \in 1..Len(body) : body[k] \in Digits \cup {"_"}
                /\ body[1] # "_" /\ body[Len(body)] # "_"
                /\ \A k \in 1..(Len(body) - 1) : ~(body[k] = "_" /\ body[k + 1] = "_")
    IN  [ok  |-> ok,
         val |-> IF ~ok THEN 0
                 ELSE IF sgn /\ Head(t) = "-" THEN 0 - DigitsValue(body, 0)
                 ELSE DigitsValue(body, 0)]

-----------------------------------------------------------------------------
(* Input validation functions                                               *)

check_val_range(var, min_val, max_val, name) ==
    IF PyLess(var, PyInt(min_val)) \/ PyGreater(var, PyInt(max_val))
    THEN RangeError(name) ELSE NoError

check_val_type(var, expected_types, name) ==
    IF Bases(var.type) \cap expected_types = {} THEN TypeError(name) ELSE NoError

val_nearest_misses_inputs(n, total_n_pages, sleep_time, rate_limit_pause, wait_for_rate_limit) ==
    FirstError(<<
        check_val_type(n, TYPES_N, "n"),
        check_val_type(total_n_pages, TYPES_N, "total_n_pages"),
        check_val_type(sleep_time, TYPES_SLEEP, "sleep_time"),
        check_val_type(rate_limit_pause, TYPES_SLEEP, "rate_limit_pause"),
        check_val_type(wait_for_rate_limit, TYPES_WAIT, "wait_for_rate_limit"),
        check_val_range(n, MIN_N_MISSES, MAX_N_MISSES, "n"),
        check_val_range(total_n_pages, MIN_N_PAGES, MAX_N_PAGES, "total_n_pages"),
        check_val_range(sleep_time, MIN_SLEEP, MAX_SLEEP, "sleep_time"),
        check_val_range(rate_limit_pause, MIN_SLEEP, MAX_SLEEP, "rate_limit_pause") >>)

\* the body of the try block: any exception inside becomes DATE_STR_ERR
DateFieldsFail(year, month) ==
    \/ check_val_range(PyInt(Len(year)), LEN_YEAR, LEN_YEAR, "year") # NoError
    \/ check_val_range(PyInt(Len(month)), LEN_MONTH, LEN_MONTH, "month") # NoError
    \/ ~ParseInt(month).ok
    \/ check_val_range(PyInt(ParseInt(month).val), MIN_MONTH, MAX_MONTH, "month") # NoError
    \/ ~ParseInt(year).ok

val_month_closest_approaches_inputs(date_str, split_token) ==
    IF check_val_type(date_str, TYPES_DATE, "date_str") # NoError
        THEN check_val_type(date_str, TYPES_DATE, "date_str")
    ELSE IF check_val_type(split_token, TYPES_SPLIT, "split_token") # NoError
        THEN check_val_type(split_token, TYPES_SPLIT, "split_token")
    ELSE IF ~Contains(date_str.str, split_token.str) THEN DATE_STR_ERR
    ELSE IF split_token.str = <<>> THEN EmptySeparator
    ELSE LET tokenized_date_str == Split(date_str.str, split_token.str)
         IN  IF DateFieldsFail(tokenized_date_str[1], tokenized_date_str[2])
             THEN DATE_STR_ERR ELSE NoError

-----------------------------------------------------------------------------
(* Bounds of the model                                                      *)

MaxN     == 2    \* largest n a session asks for
MaxPages == 2    \* largest total_n_pages a session asks for
MaxNeos  == 2    \* most NEOs the API puts on one page
MaxRecs  == 3    \* most close-approach records of a NEO handed to the ranker
MaxCalls == 2    \* calls of one session

-----------------------------------------------------------------------------
(* NEO data                                                                 *)

Str1   == <<"1">>
Str1p0 == <<"1", ".", "0">>
Str2   == <<"2">>
Str10  == <<"1", "0">>

\* stringified floats the API sends as miss_distance.miles
MilesSet == {Str1, Str1p0, Str2, Str10}

DateDec == <<"2", "0", "2", "0", "-", "1", "2", "-", "2", "9">>
DateJan == <<"2", "0", "2", "1", "-", "0", "1", "-", "0", "2">>

Rec(miles, date, body) ==
    [miles |-> miles, close_approach_date |-> date, orbiting_body |-> body]

Neo(id, cad) == [id |-> id, close_approach_data |-> cad]

\* float(s) of a decimal string, in tenths
Float(s) ==
    LET parts == Split(s, <<".">>)
        whole == DigitsValue(parts[1], 0)
        frac  == IF Len(parts) > 1 /\ parts[2] # <<>> THEN DigitVal(parts[2][1]) ELSE 0
    IN  10 * whole + frac

\* the key negated: the list comes out farthest first
MilesKey_Descending(data) == 0 - Float(data.miles)

\* the sort key of get_n_nearest_misses
MilesKey(data) == Float(data.miles)

\* an insertion that puts a record before the records of equal key
RECURSIVE InsertStable_BeforeEquals(_, _)
InsertStable_BeforeEquals(sortedSeq, x) ==
    IF sortedSeq = <<>> THEN <<x>>
    ELSE IF MilesKey(x) <= MilesKey(Head(sortedSeq)) THEN <<x>> \o sortedSeq
    ELSE <<Head(sortedSeq)>> \o InsertStable_BeforeEquals(Tail(sortedSeq), x)

\* list.insert that keeps equal keys in arrival order
RECURSIVE InsertStable(_, _)
InsertStable(sortedSeq, x) ==
    IF sortedSeq = <<>> THEN <<x>>
    ELSE IF MilesKey(x) < MilesKey(Head(sortedSeq)) THEN <<x>> \o sortedSeq
    ELSE <<Head(sortedSeq)>> \o InsertStable(Tail(sortedSeq), x)

\* sorted(close_approach_data, key=miles as float): ascending and stable
RECURSIVE SortedByMiles(_)
SortedByMiles(cad) ==
    IF cad = <<>> THEN <<>>
    ELSE InsertStable(SortedByMiles(SubSeq(cad, 1, Len(cad) - 1)), cad[Len(cad)])

\* every copy given the nearest record instead of the i-th
get_n_nearest_misses_SameRecord(neo, n) ==
    LET nearest_misses == SortedByMiles(neo.close_approach_data)
    IN  IF n > Len(nearest_misses)
        THEN [err |-> IndexError, value |-> <<>>]
        ELSE [err |-> NoError,
              value |-> [i \in 1..n |->
                            [neo EXCEPT !.close_approach_data = <<nearest_misses[1]>>]]]

\* n clamped to the number of records
get_n_nearest_misses_Clamped(neo, n) ==
    LET nearest_misses == SortedByMiles(neo.close_approach_data)
        m == IF n > Len(nearest_misses) THEN Len(nearest_misses) ELSE n
    IN  [err |-> NoError,
         value |-> [i \in 1..m |->
                       [neo EXCEPT !.close_approach_data = <<nearest_misses[i]>>]]]

\* get_n_nearest_misses(neo, n): nearest_misses[i] raises IndexError once i
\* reaches the number of records; otherwise n copies of the NEO, the i-th
\* holding the i-th ranked record alone
get_n_nearest_misses(neo, n) ==
    LET nearest_misses == SortedByMiles(neo.close_approach_data)
    IN  IF n > Len(nearest_misses)
        THEN [err |-> IndexError, value |-> <<>>]
        ELSE [err |-> NoError,
              value |-> [i \in 1..n |->
                            [neo EXCEPT !.close_approach_data = <<nearest_misses[i]>>]]]

\* the inner loop putting each NEO's misses in front of the list
RECURSIVE ProcessNeos_Prepends(_, _, _)
ProcessNeos_Prepends(neos, n, acc) ==
    IF neos = <<>> THEN [err |-> NoError, value |-> acc]
    ELSE LET misses_this_neo == get_n_nearest_misses(Head(neos), n)
         IN  IF misses_this_neo.err # NoError THEN [err |-> misses_this_neo.err, value |-> acc]
             ELSE ProcessNeos_Prepends(Tail(neos), n, misses_this_neo.value \o acc)

\* the inner loop of nearest_misses over page["near_earth_objects"]
RECURSIVE ProcessNeos(_, _, _)
ProcessNeos(neos, n, acc) ==
    IF neos = <<>> THEN [err |-> NoError, value |-> acc]
    ELSE LET misses_this_neo == get_n_nearest_misses(Head(neos), n)
         IN  IF misses_this_neo.err # NoError THEN [err |-> misses_this_neo.err, value |-> acc]
             ELSE ProcessNeos(Tail(neos), n, acc \o misses_this_neo.value)

-----------------------------------------------------------------------------
(* The remote API                                                           *)

RecNear == Rec(Str2, DateDec, "Earth")
RecFar  == Rec(Str10, DateDec, "Earth")

\* the NEOs the browse endpoint serves in a session
PageNeos ==
    { Neo(1, <<RecFar, RecNear>>),     \* two records, farthest first
      Neo(2, <<RecFar, RecNear>>),     \* the same records under another id
      Neo(2, <<RecNear>>),             \* a single record
      Neo(1, <<RecNear, RecNear>>) }   \* the same record twice

SeqsUpTo(S, k) == UNION { [1..m -> S] : m \in 0..k }

PageBodies == SeqsUpTo(PageNeos, MaxNeos)

StatusCodes == {GOOD, 404, 500}

decode_status == {200, 400, 401, 403, 404, 429}

\* what one GET answers: status, decoded body, X-RateLimit-Remaining
PageResponses ==
    [status : {GOOD}, body : PageBodies, element_count : {0}, remaining : {0, 1}]
      \cup [status : StatusCodes \ {GOOD}, body : {<<>>}, element_count : {0}, remaining : {0, 1}]

None == [none |-> TRUE, body |-> <<>>, element_count |-> 0]
Json(resp) == [none |-> FALSE, body |-> resp.body, element_count |-> resp.element_count]

\* the tail shared by get_neo_page and get_neo_week: decode or report
DecodeResponse(resp) == IF resp.status = GOOD THEN Json(resp) ELSE None

StatusLine(resp) ==
    IF resp.status = GOOD THEN <<>>
    ELSE IF resp.status \in decode_status THEN <<"Error: decoded status">>
    ELSE <<"Unknown error">>

BrowseFetch(k) == [endpoint |-> "browse", page |-> k, start_date |-> <<>>]
FeedFetch(d)   == [endpoint |-> "feed", page |-> 0, start_date |-> d]

-----------------------------------------------------------------------------
(* Calls                                                                    *)

PageCall(fn, n, total_n_pages, sleep_time, rate_limit_pause, wait_for_rate_limit) ==
    [fn |-> fn, n |-> n, total_n_pages |-> total_n_pages, sleep_time |-> sleep_time,
     rate_limit_pause |-> rate_limit_pause, wait_for_rate_limit |-> wait_for_rate_limit,
     date_str |-> PyNone, split_token |-> PyNone]

MonthCall(date_str, split_token) ==
    [fn |-> "month_closest_approaches", n |-> PyNone, total_n_pages |-> PyNone,
     sleep_time |-> PyNone, rate_limit_pause |-> PyNone, wait_for_rate_limit |-> PyNone,
     date_str |-> date_str, split_token |-> split_token]

NArgs     == { PyInt(i) : i \in 0..MaxN } \cup { PyFloat(10) }
PagesArgs == { PyInt(i) : i \in 0..MaxPages } \cup { PyStr(Str1) }
SleepArgs == { PyFloat(1), PyInt(0 - 1) }
PauseArgs == { PyInt(60), PyInt(MAX_SLEEP + 1) }
WaitArgs  == { PyBool(TRUE), PyBool(FALSE), PyInt(1) }

NearestMissesCalls ==
    { PageCall("nearest_misses", n, p, s, r, w) :
        n \in NArgs, p \in PagesArgs, s \in SleepArgs, r \in PauseArgs, w \in WaitArgs }

\* the alias has no n parameter
ClosestApproachCalls ==
    { PageCall("asteroid_closest_approach", PyNone, p, s, r, w) :
        p \in PagesArgs, s \in SleepArgs, r \in PauseArgs, w \in WaitArgs }

EntryPc(c) ==
    CASE c.fn = "nearest_misses" -> "validate"
      [] c.fn = "asteroid_closest_approach" -> "alias"
      [] c.fn = "month_closest_approaches" -> "validate_month"
      [] OTHER -> "check"

\* the locals of a call that has not started
Fresh(c) ==
    /\ call = c
    /\ pc = EntryPc(c)
    /\ page_num = 0
    /\ page = None
    /\ remaining_requests = 0 - 1
    /\ misses = <<>>
    /\ fetches = <<>>
    /\ sleeps = <<>>
    /\ element_count = 0
    /\ log = <<>>
    /\ outcome = NoError
    /\ result = [value |-> <<>>, element_count |-> 0]

Returned == [exc |-> "none", name |-> "", msg |-> "returned"]

\* the same locals, for a call that follows another
Begin(c) ==
    /\ call' = c
    /\ pc' = EntryPc(c)
    /\ page_num' = 0
    /\ page' = None
    /\ remaining_requests' = 0 - 1
    /\ misses' = <<>>
    /\ fetches' = <<>>
    /\ sleeps' = <<>>
    /\ element_count' = 0
    /\ log' = <<>>
    /\ outcome' = NoError
    /\ result' = [value |-> <<>>, element_count |-> 0]

Raise(err) ==
    /\ pc' = "done"
    /\ outcome' = err
    /\ UNCHANGED result

Return(value, count) ==
    /\ pc' = "done"
    /\ outcome' = Returned
    /\ result' = [value |-> value, element_count |-> count]

-----------------------------------------------------------------------------
(* nearest_misses and its alias                                             *)

\* the alias forgetting to pass n on: nearest_misses runs with its default
AsteroidClosestApproach_DefaultN ==
    /\ pc = "alias"
    /\ call' = [call EXCEPT !.n = PyInt(10)]
    /\ pc' = "validate"
    /\ UNCHANGED <<api, page_num, page, remaining_requests, misses, fetches,
                   sleeps, element_count, log, outcome, result, history, heap>>

\* asteroid_closest_approach: n = 1, then nearest_misses
AsteroidClosestApproach ==
    /\ pc = "alias"
    /\ call' = [call EXCEPT !.n = PyInt(1)]
    /\ pc' = "validate"
    /\ UNCHANGED <<api, page_num, page, remaining_requests, misses, fetches,
                   sleeps, element_count, log, outcome, result, history, heap>>

\* nearest_misses without the call to its validator
NearestMissesEnter_Unvalidated ==
    /\ pc = "validate"
    /\ misses' = <<>>
    /\ page_num' = 0
    /\ IF 0 < call.total_n_pages.val
       THEN pc' = "fetch" /\ UNCHANGED <<outcome, result>>
       ELSE Return(<<>>, 0)
    /\ UNCHANGED <<api, call, page, remaining_requests, fetches, sleeps,
                   element_count, log, history, heap>>

\* nearest_misses, up to the loop: validate, misses = []
NearestMissesEnter ==
    /\ pc = "validate"
    /\ LET err == val_nearest_misses_inputs(call.n, call.total_n_pages, call.sleep_time,
                                            call.rate_limit_pause, call.wait_for_rate_limit)
       IN  IF err # NoError
           THEN Raise(err) /\ UNCHANGED <<page_num, misses>>
           ELSE /\ misses' = <<>>
                /\ page_num' = 0
                /\ IF 0 < call.total_n_pages.val
                   THEN pc' = "fetch" /\ UNCHANGED <<outcome, result>>
                   ELSE Return(<<>>, 0)
    /\ UNCHANGED <<api, call, page, remaining_requests, fetches, sleeps,
                   element_count, log, history, heap>>

\* get_neo_page(page_num): one GET; the API answers a page index the way it
\* answered it before in this session
GetNeoPage ==
    /\ pc = "fetch"
    /\ \E resp \in PageResponses :
        /\ \/ /\ page_num < Len(api.pages)
              /\ resp = api.pages[page_num + 1]
              /\ UNCHANGED api
           \/ /\ page_num >= Len(api.pages)
              /\ api' = [api EXCEPT !.pages = Append(@, resp)]
        /\ fetches' = Append(fetches, BrowseFetch(page_num))
        /\ page' = DecodeResponse(resp)
        /\ remaining_requests' = resp.remaining
        /\ log' = log \o StatusLine(resp)
    /\ pc' = "process"
    /\ UNCHANGED <<call, page_num, misses, sleeps, element_count, outcome, result, history, heap>>

\* the loop body assigning the page's misses instead of extending the list
ProcessPage_Overwrites ==
    /\ pc = "process"
    /\ IF ~page.none
       THEN LET done == ProcessNeos(page.body, call.n.val, <<>>)
            IN  IF done.err # NoError
                THEN Raise(done.err) /\ UNCHANGED <<misses, log>>
                ELSE /\ misses' = done.value
                     /\ pc' = "rate_limit"
                     /\ UNCHANGED <<log, outcome, result>>
       ELSE /\ log' = Append(log, "No page found")
            /\ pc' = "rate_limit"
            /\ UNCHANGED <<misses, outcome, result>>
    /\ UNCHANGED <<api, call, page_num, page, remaining_requests, fetches, sleeps,
                   element_count, history, heap>>

\* the absent-page branch throwing away what earlier pages gave
ProcessPage_AbsentPageResets ==
    /\ pc = "process"
    /\ IF ~page.none
       THEN LET done == ProcessNeos(page.body, call.n.val, misses)
            IN  IF done.err # NoError
                THEN Raise(done.err) /\ UNCHANGED <<misses, log>>
                ELSE /\ misses' = done.value
                     /\ pc' = "rate_limit"
                     /\ UNCHANGED <<log, outcome, result>>
       ELSE /\ log' = Append(log, "No page found")
            /\ misses' = <<>>
            /\ pc' = "rate_limit"
            /\ UNCHANGED <<outcome, result>>
    /\ UNCHANGED <<api, call, page_num, page, remaining_requests, fetches, sleeps,
                   element_count, history, heap>>

\* the remaining-requests test made before the page is processed
ProcessPage_ChecksFirst ==
    /\ pc = "process"
    /\ IF remaining_requests = 0 /\ call.wait_for_rate_limit.val = 0
       THEN Return(misses, 0) /\ UNCHANGED <<misses, log>>
       ELSE IF ~page.none
       THEN LET done == ProcessNeos(page.body, call.n.val, misses)
            IN  IF done.err # NoError
                THEN Raise(done.err) /\ UNCHANGED <<misses, log>>
                ELSE /\ misses' = done.value
                     /\ pc' = "rate_limit"
                     /\ UNCHANGED <<log, outcome, result>>
       ELSE /\ log' = Append(log, "No page found")
            /\ pc' = "rate_limit"
            /\ UNCHANGED <<misses, outcome, result>>
    /\ UNCHANGED <<api, call, page_num, page, remaining_requests, fetches, sleeps,
                   element_count, history, heap>>

\* the page branch of the loop body
ProcessPage ==
    /\ pc = "process"
    /\ IF ~page.none
       THEN LET done == ProcessNeos(page.body, call.n.val, misses)
            IN  IF done.err # NoError
                THEN Raise(done.err) /\ UNCHANGED <<misses, log>>
                ELSE /\ misses' = done.value
                     /\ pc' = "rate_limit"
                     /\ UNCHANGED <<log, outcome, result>>
       ELSE /\ log' = Append(log, "No page found")
            /\ pc' = "rate_limit"
            /\ UNCHANGED <<misses, outcome, result>>
    /\ UNCHANGED <<api, call, page_num, page, remaining_requests, fetches, sleeps,
                   element_count, history, heap>>

\* the end of an iteration that did not leave the function: next index or return
NextPage ==
    /\ page_num' = page_num + 1
    /\ IF page_num + 1 < call.total_n_pages.val
       THEN pc' = "fetch" /\ UNCHANGED <<outcome, result>>
       ELSE Return(misses, 0)

\* the branch without its early return: the loop goes on whatever the flag says
RateLimit_NeverReturnsEarly ==
    /\ pc = "rate_limit"
    /\ sleeps' = Append(sleeps, call.sleep_time)
    /\ NextPage
    /\ UNCHANGED log
    /\ UNCHANGED <<api, call, page, remaining_requests, misses, fetches,
                   element_count, history, heap>>

\* time.sleep(sleep_time) and the remaining-requests branch
RateLimit ==
    /\ pc = "rate_limit"
    /\ IF remaining_requests = 0
       THEN IF call.wait_for_rate_limit.val = 1
            THEN /\ log' = Append(log, "No more requests remaining. Pausing to refuel...")
                 /\ IF "SECONDS_IN_MINUTE" \in ModuleNames
                    THEN /\ sleeps' = sleeps \o <<call.sleep_time, call.rate_limit_pause>>
                         /\ NextPage
                    ELSE /\ sleeps' = Append(sleeps, call.sleep_time)
                         /\ Raise(NameError("SECONDS_IN_MINUTE"))
                         /\ UNCHANGED page_num
            ELSE /\ log' = Append(log, "Exceeded request limit. Returning intermediate result.")
                 /\ sleeps' = Append(sleeps, call.sleep_time)
                 /\ Return(misses, 0)
                 /\ UNCHANGED page_num
       ELSE /\ sleeps' = Append(sleeps, call.sleep_time)
            /\ NextPage
            /\ UNCHANGED log
    /\ UNCHANGED <<api, call, page, remaining_requests, misses, fetches,
                   element_count, history, heap>>

-----------------------------------------------------------------------------
(* month_closest_approaches                                                 *)

MaxWeekNeos == 2    \* most NEOs the feed lists under one start date

start_days == << <<"0", "1">>, <<"0", "8">>, <<"1", "5">>, <<"2", "2">>, <<"2", "9">> >>

\* the NEOs the feed lists under start_date: their approach falls in the week
\* that starts there, which leaves the month only for the last start day
WeekNeos(start_date, last) ==
    { Neo(3, <<Rec(Str2, start_date, "Earth")>>) }
      \cup IF last THEN { Neo(4, <<Rec(Str10, DateJan, "Earth")>>),
                          Neo(5, <<Rec(Str10, start_date, "Earth")>>) }
                 ELSE {}

\* the feed lists a NEO once under a date
WeekBodies(start_date, last) ==
    { b \in SeqsUpTo(WeekNeos(start_date, last), MaxWeekNeos) :
        \A i, j \in DOMAIN b : i # j => b[i] # b[j] }

\* element_count counts the whole week, near_earth_objects[start_date] one day
\* of it: other_days is the number of approaches on the six other days
WeekResponses(start_date, last) ==
    { [status |-> GOOD, body |-> b, element_count |-> Len(b) + other_days, remaining |-> r] :
        b \in WeekBodies(start_date, last), other_days \in {0, 1}, r \in {0, 1} }
      \cup [status : StatusCodes \ {GOOD}, body : {<<>>}, element_count : {0}, remaining : {0, 1}]

\* f"{year}-{month}-{start_day}"
StartDate(year, month, start_day) == year \o <<"-">> \o month \o <<"-">> \o start_day

Year(c)  == Split(c.date_str.str, c.split_token.str)[1]

\* the month read from the end of the date string instead of its second segment
Month_LastSegment(c) ==
    LET tokenized_date_str == Split(c.date_str.str, c.split_token.str)
    IN  tokenized_date_str[Len(tokenized_date_str)]

Month(c) == Split(c.date_str.str, c.split_token.str)[2]

\* what the feed answered for a start date earlier in the session, if it did
Answered(d) == { k \in 1..Len(api.weeks) : api.weeks[k].start_date = d }

\* the loop over the last week without its month test
RECURSIVE FilterLastWeek_KeepsAll(_, _, _, _)
FilterLastWeek_KeepsAll(neos, month, acc, count) ==
    IF neos = <<>> THEN [err |-> NoError, value |-> acc, count |-> count]
    ELSE LET neo == Head(neos)
         IN  IF neo.close_approach_data = <<>>
             THEN [err |-> IndexError, value |-> acc, count |-> count]
             ELSE LET tokenized == Split(neo.close_approach_data[1].close_approach_date, <<"-">>)
                  IN  IF Len(tokenized) < 2
                      THEN [err |-> IndexError, value |-> acc, count |-> count]
                      ELSE FilterLastWeek_KeepsAll(Tail(neos), month, Append(acc, neo), count + 1)

\* the loop over the last week putting each kept NEO in front of the list
RECURSIVE FilterLastWeek_Prepends(_, _, _, _)
FilterLastWeek_Prepends(neos, month, acc, count) ==
    IF neos = <<>> THEN [err |-> NoError, value |-> acc, count |-> count]
    ELSE LET neo == Head(neos)
         IN  IF neo.close_approach_data = <<>>
             THEN [err |-> IndexError, value |-> acc, count |-> count]
             ELSE LET tokenized == Split(neo.close_approach_data[1].close_approach_date, <<"-">>)
                  IN  IF Len(tokenized) < 2
                      THEN [err |-> IndexError, value |-> acc, count |-> count]
                      ELSE IF tokenized[2] = month
                      THEN FilterLastWeek_Prepends(Tail(neos), month, <<neo>> \o acc, count + 1)
                      ELSE FilterLastWeek_Prepends(Tail(neos), month, acc, count)

\* the loop over the last week: keep the NEOs whose first approach is in the month
RECURSIVE FilterLastWeek(_, _, _, _)
FilterLastWeek(neos, month, acc, count) ==
    IF neos = <<>> THEN [err |-> NoError, value |-> acc, count |-> count]
    ELSE LET neo == Head(neos)
         IN  IF neo.close_approach_data = <<>>
             THEN [err |-> IndexError, value |-> acc, count |-> count]
             ELSE LET tokenized == Split(neo.close_approach_data[1].close_approach_date, <<"-">>)
                  IN  IF Len(tokenized) < 2
                      THEN [err |-> IndexError, value |-> acc, count |-> count]
                      ELSE IF tokenized[2] = month
                      THEN FilterLastWeek(Tail(neos), month, Append(acc, neo), count + 1)
                      ELSE FilterLastWeek(Tail(neos), month, acc, count)

\* month_closest_approaches, up to the first loop
MonthEnter ==
    /\ pc = "validate_month"
    /\ LET err == val_month_closest_approaches_inputs(call.date_str, call.split_token)
       IN  IF err # NoError
           THEN Raise(err)
           ELSE pc' = "week" /\ UNCHANGED <<outcome, result>>
    /\ misses' = <<>>
    /\ element_count' = 0
    /\ page_num' = 0
    /\ UNCHANGED <<api, call, page, remaining_requests, fetches, sleeps, log, history, heap>>

\* get_neo_week(start_date) for start_days[page_num]
GetNeoWeek ==
    /\ pc = "week"
    /\ LET start_date == StartDate(Year(call), Month(call), start_days[page_num + 1])
       IN  \E resp \in WeekResponses(start_date, page_num + 1 = Len(start_days)) :
            /\ resp.status = GOOD => resp.element_count = Len(resp.body) + api.other_days
            /\ \/ /\ Answered(start_date) # {}
                  /\ resp = [api.weeks[CHOOSE k \in Answered(start_date) : TRUE].resp
                                EXCEPT !.remaining = resp.remaining]
                  /\ UNCHANGED api
               \/ /\ Answered(start_date) = {}
                  /\ api' = [api EXCEPT !.weeks =
                                Append(@, [start_date |-> start_date,
                                           resp |-> [resp EXCEPT !.remaining = 0]])]
            /\ fetches' = Append(fetches, FeedFetch(start_date))
            /\ page' = DecodeResponse(resp)
            /\ remaining_requests' = resp.remaining
            /\ log' = log \o StatusLine(resp)
    /\ pc' = "week_process"
    /\ UNCHANGED <<call, page_num, misses, sleeps, element_count, outcome, result, history, heap>>

\* the first loop keeping only the week at hand instead of extending the list
ProcessWeek_KeepsLastWeek ==
    /\ pc = "week_process"
    /\ IF page.none
       THEN Raise(NoneSubscript) /\ UNCHANGED <<misses, element_count, page_num>>
       ELSE IF page_num + 1 < Len(start_days)
       THEN /\ element_count' = page.element_count
            /\ misses' = page.body
            /\ page_num' = page_num + 1
            /\ pc' = "week"
            /\ UNCHANGED <<outcome, result>>
       ELSE LET kept == FilterLastWeek(page.body, Month(call), misses, element_count)
            IN  /\ misses' = kept.value
                /\ element_count' = kept.count
                /\ UNCHANGED page_num
                /\ IF kept.err # NoError
                   THEN Raise(kept.err)
                   ELSE Return(kept.value, kept.count)
    /\ UNCHANGED <<api, call, page, remaining_requests, fetches, sleeps, log, history, heap>>

\* the body of the loop over start_days[:-1], and the code after it for the last week
ProcessWeek ==
    /\ pc = "week_process"
    /\ IF page.none
       THEN Raise(NoneSubscript) /\ UNCHANGED <<misses, element_count, page_num>>
       ELSE IF page_num + 1 < Len(start_days)
       THEN /\ element_count' = page.element_count
            /\ misses' = misses \o page.body
            /\ page_num' = page_num + 1
            /\ pc' = "week"
            /\ UNCHANGED <<outcome, result>>
       ELSE LET kept == FilterLastWeek(page.body, Month(call), misses, element_count)
            IN  /\ misses' = kept.value
                /\ element_count' = kept.count
                /\ UNCHANGED page_num
                /\ IF kept.err # NoError
                   THEN Raise(kept.err)
                   ELSE Return(kept.value, kept.count)
    /\ UNCHANGED <<api, call, page, remaining_requests, fetches, sleeps, log, history, heap>>

-----------------------------------------------------------------------------
(* A session: a call, then calls that vary one argument of it, all against  *)
(* the same API responses                                                   *)

Str2020d12     == <<"2", "0", "2", "0", "-", "1", "2">>
Str2020d12d01  == <<"2", "0", "2", "0", "-", "1", "2", "-", "0", "1">>
Str2020s12     == <<"2", "0", "2", "0", "/", "1", "2">>
Str2020d13     == <<"2", "0", "2", "0", "-", "1", "3">>

MonthCalls ==
    { MonthCall(PyStr(Str2020d12d01), PyStr(<<"-">>)),
      MonthCall(PyStr(Str2020s12), PyStr(<<"/">>)),
      MonthCall(PyStr(Str2020s12), PyStr(<<"-">>)),
      MonthCall(PyStr(Str2020d13), PyStr(<<"-">>)),
      MonthCall(PyStr(<<>>), PyStr(<<"-">>)),
      MonthCall(PyStr(Str2020d12), PyStr(<<>>)),
      MonthCall(PyInt(202004), PyStr(<<"-">>)),
      MonthCall(PyStr(Str2020d12), PyNone) }

Calls == NearestMissesCalls \cup ClosestApproachCalls \cup MonthCalls

\* spellings of one month that the validator accepts
MonthSpellings ==
    { MonthCall(PyStr(Str2020d12d01), PyStr(<<"-">>)),
      MonthCall(PyStr(Str2020s12), PyStr(<<"/">>)) }

\* the calls a client makes to compare against call c
FollowUps(c) ==
    IF c.fn = "month_closest_approaches"
    THEN IF c \in MonthSpellings THEN MonthSpellings \ {c} ELSE {}
    ELSE { PageCall("asteroid_closest_approach", PyNone, c.total_n_pages, c.sleep_time,
                    c.rate_limit_pause, c.wait_for_rate_limit) :
              x \in IF c.fn = "nearest_misses" /\ c.n = PyInt(1) THEN {1} ELSE {} }
      \cup { PageCall("nearest_misses", PyInt(1), c.total_n_pages, c.sleep_time,
                      c.rate_limit_pause, c.wait_for_rate_limit) :
              x \in IF c.fn = "asteroid_closest_approach" THEN {1} ELSE {} }
      \cup { PageCall("nearest_misses", PyInt(c.n.val + 1), c.total_n_pages, c.sleep_time,
                      c.rate_limit_pause, c.wait_for_rate_limit) :
              x \in IF c.fn = "nearest_misses" /\ c.n.type = "int" /\ c.n.val < MaxN
                    THEN {1} ELSE {} }
      \cup { PageCall("nearest_misses", c.n, PyInt(c.total_n_pages.val + 1), c.sleep_time,
                      c.rate_limit_pause, c.wait_for_rate_limit) :
              x \in IF c.fn = "nearest_misses" /\ c.total_n_pages.type = "int"
                       /\ c.total_n_pages.val < MaxPages
                    THEN {1} ELSE {} }

\* what a session remembers of a finished call
Finished ==
    [call |-> call, outcome |-> outcome, result |-> result, fetches |-> fetches,
     sleeps |-> sleeps, log |-> log]

NextCall ==
    /\ pc = "done"
    /\ Len(history) + 1 < MaxCalls
    /\ history' = Append(history, Finished)
    /\ \E c \in FollowUps(call) : Begin(c)
    /\ UNCHANGED <<api, heap>>

Init ==
    /\ history = <<>>
    /\ heap = <<>>
    /\ \E c \in Calls :
        /\ Fresh(c)
        /\ api \in [pages : {<<>>}, weeks : {<<>>},
                    other_days : IF c.fn = "month_closest_approaches" THEN {0, 1} ELSE {0}]

Next ==
    \/ AsteroidClosestApproach
    \/ NearestMissesEnter
    \/ GetNeoPage
    \/ ProcessPage
    \/ RateLimit
    \/ MonthEnter
    \/ GetNeoWeek
    \/ ProcessWeek
    \/ NextCall

Spec == Init /\ [][Next]_vars

-----------------------------------------------------------------------------
(* The validators on their own, over a wider range of arguments             *)

ValN     == { PyInt(i) : i \in {0 - 1, 0, 1, 2, MAX_N_MISSES, MAX_N_MISSES + 1} }
              \cup { PyFloat(10), PyBool(TRUE), PyStr(Str1), PyNone }
ValPages == { PyInt(i) : i \in {0, 1, MAX_N_PAGES, MAX_N_PAGES + 1} }
              \cup { PyFloat(10), PyBool(TRUE), PyStr(Str1) }
ValSleep == { PyInt(i) : i \in {0 - 1, 0, MAX_SLEEP, MAX_SLEEP + 1} }
              \cup { PyFloat(1), PyFloat(0 - 1), PyFloat(10 * MAX_SLEEP + 1), PyNaN,
                     PyBool(FALSE), PyStr(Str1), PyNone }
ValPause == { PyInt(i) : i \in {0 - 1, 60, MAX_SLEEP + 1} }
              \cup { PyFloat(5), PyNaN, PyStr(Str1) }
ValWait  == { PyBool(TRUE), PyBool(FALSE), PyInt(0), PyInt(1), PyNone }

ValDates ==
    { PyStr(Str2020d12d01),                                        \* 2020-12-01
      PyStr(<<"2", "0", "2", "0", "-", "1", "2">>),                \* 2020-12
      PyStr(Str2020s12),                                           \* 2020/12
      PyStr(<<"2", "0", "2", "0", "_", "1", "2", "_", "0", "1">>), \* 2020_12_01
      PyStr(<<>>),                                                 \* empty
      PyStr(<<"2", "0", "2", "0", "-", "1", "2", "1">>),           \* 2020-121
      PyStr(<<"2", "0", "2", "0", "1", "-", "1", "0">>),           \* 20201-10
      PyStr(Str2020d13),                                           \* 2020-13
      PyStr(<<"2", "0", "2", "0", "-", "0", "0">>),                \* 2020-00
      PyStr(<<"2", "0", "2", "0", "-", "1", "a">>),                \* 2020-1a
      PyStr(<<"a", "b", "c", "d", "-", "1", "2">>),                \* abcd-12
      PyStr(<<"2", "0", "2", "0">>),                               \* 2020
      PyStr(<<"2", "0", "2", "0", "-", " ", "1">>),                \* "2020- 1"
      PyStr(<<"2", "0", "2", "0", "/", "-", "1">>),                \* 2020/-1
      PyStr(<<"2", "0", "2", "0", "/", "+", "1">>),                \* 2020/+1
      PyStr(<<"2", "0", "_", "0", "-", "1", "2">>),                \* 20_0-12
      PyStr(<<"2", "0", "2", "0", "-", "1", "_">>),                \* 2020-1_
      PyStr(<<"-">>),
      PyInt(202004), PyNone }

ValTokens ==
    { PyStr(<<"-">>), PyStr(<<"/">>), PyStr(<<"_">>), PyStr(<<>>), PyStr(<<"2", "0">>),
      PyStr(<<"-", "1">>), PyInt(1), PyNone }

ValidatorCalls ==
    { PageCall("val_nearest_misses_inputs", n, p, s, r, w) :
        n \in ValN, p \in ValPages, s \in ValSleep, r \in ValPause, w \in ValWait }
      \cup { [MonthCall(d, t) EXCEPT !.fn = "val_month_closest_approaches_inputs"] :
                d \in ValDates, t \in ValTokens }

\* a function that raised nothing returns
Ended(err) == IF err = NoError THEN Returned ELSE err

ValNearestMissesInputs ==
    /\ pc = "check"
    /\ call.fn = "val_nearest_misses_inputs"
    /\ outcome' = Ended(val_nearest_misses_inputs(call.n, call.total_n_pages, call.sleep_time,
                                                  call.rate_limit_pause, call.wait_for_rate_limit))
    /\ pc' = "checked"
    /\ UNCHANGED <<api, call, page_num, page, remaining_requests, misses, fetches,
                   sleeps, element_count, log, result, history, heap>>

ValMonthClosestApproachesInputs ==
    /\ pc = "check"
    /\ call.fn = "val_month_closest_approaches_inputs"
    /\ outcome' = Ended(val_month_closest_approaches_inputs(call.date_str, call.split_token))
    /\ pc' = "checked"
    /\ UNCHANGED <<api, call, page_num, page, remaining_requests, misses, fetches,
                   sleeps, element_count, log, result, history, heap>>

InitVal ==
    /\ api = [pages |-> <<>>, weeks |-> <<>>, other_days |-> 0]
    /\ history = <<>>
    /\ heap = <<>>
    /\ \E c \in ValidatorCalls : Fresh(c)

NextVal == ValNearestMissesInputs \/ ValMonthClosestApproachesInputs

SpecVal == InitVal /\ [][NextVal]_vars

-----------------------------------------------------------------------------
(* The ranker on its own, over every short list of records                  *)

RankRecs == { Rec(m, DateDec, b) : m \in MilesSet, b \in {"Earth"} }

RankNeos == { Neo(1, cad) : cad \in SeqsUpTo(RankRecs, MaxRecs) }

RankCalls ==
    { PageCall("get_n_nearest_misses", PyInt(n), PyNone, PyNone, PyNone, PyNone) :
        n \in 1..(MaxN + 1) }

\* the NEO handed to the ranker
RankedNeo == page.body[1]

GetNNearestMisses ==
    /\ pc = "rank"
    /\ LET r == get_n_nearest_misses(RankedNeo, call.n.val)
       IN  /\ outcome' = Ended(r.err)
           /\ result' = [value |-> r.value, element_count |-> 0]
    /\ pc' = "ranked"
    /\ UNCHANGED <<api, call, page_num, page, remaining_requests, misses, fetches,
                   sleeps, element_count, log, history, heap>>

InitRank ==
    /\ api = [pages |-> <<>>, weeks |-> <<>>, other_days |-> 0]
    /\ history = <<>>
    /\ heap = <<>>
    /\ call \in RankCalls
    /\ pc = "rank"
    /\ page_num = 0
    /\ page \in { [none |-> FALSE, body |-> <<neo>>, element_count |-> 0] : neo \in RankNeos }
    /\ remaining_requests = 0 - 1
    /\ misses = <<>>
    /\ fetches = <<>>
    /\ sleeps = <<>>
    /\ element_count = 0
    /\ log = <<>>
    /\ outcome = NoError
    /\ result = [value |-> <<>>, element_count |-> 0]

NextRank == GetNNearestMisses

SpecRank == InitRank /\ [][NextRank]_vars

-----------------------------------------------------------------------------
(* Properties of the ranker                                                 *)

\* positions of the source list whose distance is below / not above that of rec
Closer(cad, rec)     == { j \in DOMAIN cad : Float(cad[j].miles) < Float(rec.miles) }
NotFarther(cad, rec) == { j \in DOMAIN cad : Float(cad[j].miles) <= Float(rec.miles) }

\* rec is a record of cad and has the i-th smallest distance among them
IsIthSmallest(cad, rec, i) ==
    /\ \E j \in DOMAIN cad : cad[j] = rec
    /\ Cardinality(Closer(cad, rec)) < i
    /\ i <= Cardinality(NotFarther(cad, rec))

\* derived is n copies of neo, the i-th holding the i-th smallest record alone
NRanked(neo, n, derived) ==
    /\ Len(derived) = n
    /\ \A i \in 1..Len(derived) :
        /\ derived[i].id = neo.id
        /\ Len(derived[i].close_approach_data) = 1
        /\ IsIthSmallest(neo.close_approach_data, derived[i].close_approach_data[1], i)

\* C1 as stated: for every valid n and every NEO, get_n_nearest_misses returns
\* exactly n derived NEOs, each with one record, the i-th being the i-th
\* smallest by miles.
C1_NRankedForEveryN ==
    pc = "ranked" => outcome = Returned /\ NRanked(RankedNeo, call.n.val, result.value)

\* C1 amended: the same, for every NEO that has at least n close-approach
\* records (with fewer records the call raises IndexError, see C18).
C1_NRankedWhenEnoughRecords ==
    (pc = "ranked" /\ call.n.val <= Len(RankedNeo.close_approach_data))
        => outcome = Returned /\ NRanked(RankedNeo, call.n.val, result.value)

\* two derived NEOs out of three records that arrive farthest first, two of them tied
C1_Witness ==
    /\ pc = "ranked"
    /\ call.n.val = 2
    /\ outcome = Returned
    /\ Len(result.value) = 2
    /\ Len(RankedNeo.close_approach_data) = 3
    /\ RankedNeo.close_approach_data[1].miles = Str10
    /\ RankedNeo.close_approach_data[2].miles = Str1p0
    /\ RankedNeo.close_approach_data[3].miles = Str1

-----------------------------------------------------------------------------
(* Properties of the validators                                             *)

\* a boolean counts as an integer, as it does for isinstance
IsInteger(v) == v.type \in {"int", "bool"}
IsNumeric(v) == v.type \in {"int", "bool", "float"}
IsBoolean(v) == v.type = "bool"
Within(v, lo, hi) == ~IsNaN(v) /\ 10 * lo <= Tenths(v) /\ Tenths(v) <= 10 * hi

NearestArgsWellTyped(c) ==
    /\ IsInteger(c.n) /\ IsInteger(c.total_n_pages)
    /\ IsNumeric(c.sleep_time) /\ IsNumeric(c.rate_limit_pause)
    /\ IsBoolean(c.wait_for_rate_limit)

NearestArgsInRange(c) ==
    /\ Within(c.n, MIN_N_MISSES, MAX_N_MISSES)
    /\ Within(c.total_n_pages, MIN_N_PAGES, MAX_N_PAGES)
    /\ Within(c.sleep_time, MIN_SLEEP, MAX_SLEEP)
    /\ Within(c.rate_limit_pause, MIN_SLEEP, MAX_SLEEP)

\* C7 as stated: val_nearest_misses_inputs accepts exactly the calls with n an
\* integer in [1,100], total_n_pages an integer in [1,1500], sleep_time and
\* rate_limit_pause numeric in [0,10000] and wait_for_rate_limit a boolean; a
\* value of another type gives a type failure, a well-typed value outside its
\* interval a range failure.
C7_AcceptsExactlyTypedInRange ==
    (pc = "checked" /\ call.fn = "val_nearest_misses_inputs") =>
        /\ outcome = Returned <=> (NearestArgsWellTyped(call) /\ NearestArgsInRange(call))
        /\ ~NearestArgsWellTyped(call) => outcome.exc = "TypeError"
        /\ (NearestArgsWellTyped(call) /\ ~NearestArgsInRange(call)) => outcome.exc = "ValueError"

\* the segments of a date string cut at a non-empty token name a year and a month
DateFieldsValid(d, t) ==
    /\ t # <<>>
    /\ Contains(d, t)
    /\ LET segments == Split(d, t)
       IN  /\ Len(segments[1]) = LEN_YEAR
           /\ Len(segments[2]) = LEN_MONTH
           /\ ParseInt(segments[1]).ok
           /\ ParseInt(segments[2]).ok
           /\ ParseInt(segments[2]).val \in MIN_MONTH..MAX_MONTH

\* C8 as stated: val_month_closest_approaches_inputs accepts a string date_str
\* exactly when it contains the token and the first two segments are a
\* 4-character and a 2-character integer with the month in [1,12]; every
\* rejected string raises the one invalid-date-string-format failure, and a
\* date_str that is not a string raises a type failure.
C8_OneDateFormatFailure ==
    (pc = "checked" /\ call.fn = "val_month_closest_approaches_inputs") =>
        /\ (call.date_str.type = "str" /\ call.split_token.type = "str") =>
              IF DateFieldsValid(call.date_str.str, call.split_token.str)
              THEN outcome = Returned
              ELSE outcome = DATE_STR_ERR
        /\ call.date_str.type # "str" => outcome = TypeError("date_str")

-----------------------------------------------------------------------------
(* Properties of the calls                                                  *)

PageFns == {"nearest_misses", "asteroid_closest_approach"}

\* C2 as stated: when a fetch reported zero remaining requests and
\* wait_for_rate_limit is true, the call pauses for rate_limit_pause after the
\* usual sleep and goes on with the next page index; it does not fail there.
C2_PausesThenContinues ==
    [][(pc = "rate_limit" /\ remaining_requests = 0 /\ call.wait_for_rate_limit = PyBool(TRUE))
        => /\ outcome'.exc = "none"
           /\ page_num' = page_num + 1
           /\ sleeps' = sleeps \o <<call.sleep_time, call.rate_limit_pause>>]_vars

\* C3: when a fetch reported zero remaining requests and wait_for_rate_limit
\* is false, the call ends at once: it returns normally the list accumulated
\* so far and has fetched no page beyond the one that reported zero.
C3_ReturnsPartialAtOnce ==
    [][(pc = "rate_limit" /\ remaining_requests = 0 /\ call.wait_for_rate_limit = PyBool(FALSE))
        => /\ pc' = "done"
           /\ outcome' = Returned
           /\ result'.value = misses
           /\ fetches' = fetches
           /\ Len(fetches') = page_num + 1
           /\ fetches'[Len(fetches')] = BrowseFetch(page_num)]_vars

\* a call over two pages that stopped after the first one with a non-empty list
C3_Witness ==
    /\ pc = "done"
    /\ call.fn \in PageFns
    /\ outcome = Returned
    /\ remaining_requests = 0
    /\ call.wait_for_rate_limit = PyBool(FALSE)
    /\ call.total_n_pages.val = 2
    /\ Len(fetches) = 1
    /\ result.value # <<>>

\* a week fetch of the call in progress came back with a status other than 200
WeekFailed == call.fn = "month_closest_approaches" /\ log # <<>>

\* C4 as stated: a non-200 answer to a week fetch is recovered locally; the
\* remaining weeks are still fetched and the call returns the aggregate of the
\* weeks that succeeded.
C4_WeekFailureRecovered ==
    (pc = "done" /\ WeekFailed) => outcome = Returned /\ Len(fetches) = Len(start_days)

\* the two calls differ only in that one is the alias and the other passes n = 1
AliasPair(a, b) ==
    /\ a.fn = "nearest_misses" /\ b.fn = "asteroid_closest_approach"
    /\ a.n = PyInt(1)
    /\ [a EXCEPT !.fn = "", !.n = PyNone] = [b EXCEPT !.fn = "", !.n = PyNone]

\* C5: asteroid_closest_approach and nearest_misses with n = 1, given the same
\* other arguments and the same API responses, end the same way: same list,
\* same fetches, same failure.
C5_AliasEquivalent ==
    pc = "done" =>
        \A k \in DOMAIN history :
            (AliasPair(history[k].call, call) \/ AliasPair(call, history[k].call))
                => /\ history[k].outcome = outcome
                   /\ history[k].result = result
                   /\ history[k].fetches = fetches

\* nearest_misses(n=1) returned a non-empty list over two pages, then the alias did
C5_Witness ==
    /\ pc = "done"
    /\ Len(history) = 1
    /\ AliasPair(history[1].call, call)
    /\ outcome = Returned
    /\ Len(fetches) = 2
    /\ Len(result.value) >= 2

\* the failure validation raises for the arguments of call c, if any
ArgError(c) ==
    IF c.fn = "month_closest_approaches"
    THEN val_month_closest_approaches_inputs(c.date_str, c.split_token)
    ELSE val_nearest_misses_inputs(IF c.fn = "asteroid_closest_approach" THEN PyInt(1) ELSE c.n,
                                   c.total_n_pages, c.sleep_time, c.rate_limit_pause,
                                   c.wait_for_rate_limit)

\* C6: a call whose arguments fail validation issues no fetch, and ends with
\* the validation failure.
C6_NoFetchOnInvalidInput ==
    ArgError(call) # NoError =>
        /\ fetches = <<>>
        /\ pc = "done" => outcome = ArgError(call)

\* a month call and a page call that were rejected
C6_Witness ==
    /\ pc = "done"
    /\ ArgError(call) # NoError
    /\ outcome = ArgError(call)
    /\ fetches = <<>>
    /\ call.fn = "month_closest_approaches"
    /\ call.date_str = PyStr(Str2020d13)

\* the NEO id and the single approach record of a derived NEO
Element(neo) == <<neo.id, neo.close_approach_data[1]>>

\* how often an element occurs in a list of derived NEOs
Occurrences(e, derived) == Cardinality({ k \in DOMAIN derived : Element(derived[k]) = e })

RECURSIVE Flatten(_)
Flatten(lists) == IF lists = <<>> THEN <<>> ELSE Head(lists) \o Flatten(Tail(lists))

\* the NEOs on the pages the call in progress has fetched
FetchedNeos == Flatten([k \in 1..Len(fetches) |-> api.pages[k].body])

\* no NEO id is listed twice and no NEO carries the same record twice
NoRepeats(neos) ==
    /\ \A i, j \in DOMAIN neos : i # j => neos[i].id # neos[j].id
    /\ \A k \in DOMAIN neos :
        \A i, j \in DOMAIN neos[k].close_approach_data :
            i # j => neos[k].close_approach_data[i] # neos[k].close_approach_data[j]

\* a and b are nearest_misses calls that both returned and differ only in n
NPair(a, b, n1, n2) ==
    /\ a.fn = "nearest_misses" /\ b.fn = "nearest_misses"
    /\ a.n = PyInt(n1) /\ b.n = PyInt(n2)
    /\ [a EXCEPT !.n = PyNone] = [b EXCEPT !.n = PyNone]

\* a and b are nearest_misses calls that differ only in that b asks one page more
PagesPair(a, b) ==
    /\ a.fn = "nearest_misses" /\ b.fn = "nearest_misses"
    /\ a.total_n_pages.type = "int"
    /\ b.total_n_pages = PyInt(a.total_n_pages.val + 1)
    /\ [a EXCEPT !.total_n_pages = PyNone] = [b EXCEPT !.total_n_pages = PyNone]

IsPrefix(s, t) == Len(s) <= Len(t) /\ SubSeq(t, 1, Len(s)) = s

\* C9 as stated: when nearest_misses(n=1) and nearest_misses(n=2) both return
\* on the same API responses, every element of the first result appears in
\* the second exactly once.
C9_EachOnceInLargerN ==
    (pc = "done" /\ outcome = Returned) =>
        \A k \in DOMAIN history :
            (NPair(history[k].call, call, 1, 2) /\ history[k].outcome = Returned) =>
                \A i \in DOMAIN history[k].result.value :
                    Occurrences(Element(history[k].result.value[i]), result.value) = 1

\* C9 amended: every element of the n=1 result appears in the n=2 result, and
\* exactly once when the fetched pages list no NEO id twice and no NEO carries
\* the same record twice.
C9_EachInLargerN ==
    (pc = "done" /\ outcome = Returned) =>
        \A k \in DOMAIN history :
            (NPair(history[k].call, call, 1, 2) /\ history[k].outcome = Returned) =>
                \A i \in DOMAIN history[k].result.value :
                    LET times == Occurrences(Element(history[k].result.value[i]), result.value)
                    IN  times >= 1 /\ (NoRepeats(FetchedNeos) => times = 1)

\* n=1 then n=2 over two pages, two NEOs of different ids, nothing repeated
C9_Witness ==
    /\ pc = "done"
    /\ outcome = Returned
    /\ Len(history) = 1
    /\ NPair(history[1].call, call, 1, 2)
    /\ history[1].outcome = Returned
    /\ Len(history[1].result.value) = 2
    /\ Len(result.value) = 4
    /\ Len(fetches) = 2
    /\ NoRepeats(FetchedNeos)

\* C10 as stated: for the same n and the same API responses, the result over
\* p pages is a prefix of the result over p+1 pages and each of its elements
\* appears there exactly once.
C10_EachOnceInMorePages ==
    (pc = "done" /\ outcome = Returned) =>
        \A k \in DOMAIN history :
            (PagesPair(history[k].call, call) /\ history[k].outcome = Returned) =>
                /\ IsPrefix(history[k].result.value, result.value)
                /\ \A i \in DOMAIN history[k].result.value :
                      Occurrences(Element(history[k].result.value[i]), result.value) = 1

\* C10 amended: the result over p pages is a prefix of the result over p+1
\* pages, so each of its elements appears there; exactly once when the fetched
\* pages list no NEO id twice and no NEO carries the same record twice.
C10_PrefixInMorePages ==
    (pc = "done" /\ outcome = Returned) =>
        \A k \in DOMAIN history :
            (PagesPair(history[k].call, call) /\ history[k].outcome = Returned) =>
                /\ IsPrefix(history[k].result.value, result.value)
                /\ NoRepeats(FetchedNeos) =>
                      \A i \in DOMAIN history[k].result.value :
                          Occurrences(Element(history[k].result.value[i]), result.value) = 1

\* one page then two, the second page adding a NEO of another id
C10_Witness ==
    /\ pc = "done"
    /\ outcome = Returned
    /\ Len(history) = 1
    /\ PagesPair(history[1].call, call)
    /\ history[1].outcome = Returned
    /\ history[1].result.value # <<>>
    /\ Len(result.value) > Len(history[1].result.value)
    /\ Len(fetches) = 2
    /\ NoRepeats(FetchedNeos)

-----------------------------------------------------------------------------
(* Properties of month_closest_approaches                                   *)

\* the segments of the date string of call c
Segments(c) == Split(c.date_str.str, c.split_token.str)

\* the month segment of the first close-approach date of a NEO
MonthOf(neo) == Split(neo.close_approach_data[1].close_approach_date, <<"-">>)[2]

\* a and b are validated month calls whose first two segments agree
MonthPair(a, b) ==
    /\ a.fn = "month_closest_approaches" /\ b.fn = "month_closest_approaches"
    /\ a # b
    /\ ArgError(a) = NoError /\ ArgError(b) = NoError
    /\ Segments(a)[1] = Segments(b)[1]
    /\ Segments(a)[2] = Segments(b)[2]

\* C11: two validated month calls whose date strings have the same year and
\* month segments, run on the same API responses, fetch the same week start
\* dates in the same order and end the same way with the same aggregate.
C11_SameMonthSameAggregate ==
    pc = "done" =>
        \A k \in DOMAIN history :
            MonthPair(history[k].call, call)
                => /\ history[k].fetches = fetches
                   /\ history[k].outcome = outcome
                   /\ history[k].result = result

\* "2020-12-01" then "2020/12" with "/", both returning a non-empty aggregate
C11_Witness ==
    /\ pc = "done"
    /\ Len(history) = 1
    /\ MonthPair(history[1].call, call)
    /\ outcome = Returned
    /\ Len(fetches) = Len(start_days)
    /\ result.value # <<>>

\* C12: every NEO of the sequence month_closest_approaches returns has a first
\* close-approach date whose month segment is the month segment of the input.
C12_AllInTargetMonth ==
    (pc = "done" /\ call.fn = "month_closest_approaches" /\ outcome = Returned) =>
        \A i \in DOMAIN result.value : MonthOf(result.value[i]) = Segments(call)[2]

\* the last week listed an approach of the next month, and the call returned
\* the NEOs of two earlier weeks
C12_Witness ==
    /\ pc = "done"
    /\ call.fn = "month_closest_approaches"
    /\ outcome = Returned
    /\ \E i \in DOMAIN page.body : MonthOf(page.body[i]) # Segments(call)[2]
    /\ Len(result.value) >= 2

\* what the feed answered to the fetch for the k-th start day of call c
WeekAnswer(c, k) ==
    LET d == StartDate(Segments(c)[1], Segments(c)[2], start_days[k])
    IN  api.weeks[CHOOSE j \in Answered(d) : TRUE].resp

\* the NEOs of the last week of call c whose approach is in its month
KeptOfLastWeek(c) ==
    LET b == WeekAnswer(c, Len(start_days)).body
    IN  { i \in DOMAIN b : MonthOf(b[i]) = Segments(c)[2] }

\* C13 as stated: the aggregate holds strictly more NEOs than the feed lists
\* under the first start date of the month alone.
C13_MoreThanOneWeek ==
    (pc = "done" /\ call.fn = "month_closest_approaches" /\ outcome = Returned) =>
        Len(result.value) > Len(WeekAnswer(call, 1).body)

\* C13 amended: the aggregate holds at least as many NEOs as the feed lists
\* under the first start date, and strictly more exactly when a later week
\* lists a NEO that is kept.
C13_AtLeastOneWeek ==
    (pc = "done" /\ call.fn = "month_closest_approaches" /\ outcome = Returned) =>
        LET later == (\E k \in 2..(Len(start_days) - 1) : WeekAnswer(call, k).body # <<>>)
                        \/ KeptOfLastWeek(call) # {}
        IN  /\ Len(result.value) >= Len(WeekAnswer(call, 1).body)
            /\ later <=> Len(result.value) > Len(WeekAnswer(call, 1).body)

\* the first week lists a NEO, and so does a later one
C13_Witness ==
    /\ pc = "done"
    /\ call.fn = "month_closest_approaches"
    /\ outcome = Returned
    /\ WeekAnswer(call, 1).body # <<>>
    /\ WeekAnswer(call, 3).body # <<>>
    /\ Len(result.value) > Len(WeekAnswer(call, 1).body)

RECURSIVE SumOfCounts(_, _)
SumOfCounts(c, k) ==
    IF k = 0 THEN 0 ELSE SumOfCounts(c, k - 1) + WeekAnswer(c, k).element_count

\* C14 as stated: the element count of the aggregate is the sum of the element
\* counts of the weeks starting on days 01, 08, 15 and 22, plus the number of
\* NEOs of the week starting on day 29 that passed the month filter.
C14_CountIsSumOfWeeks ==
    (pc = "done" /\ call.fn = "month_closest_approaches" /\ outcome = Returned) =>
        result.element_count
            = SumOfCounts(call, Len(start_days) - 1) + Cardinality(KeptOfLastWeek(call))

-----------------------------------------------------------------------------
(* Properties of the page loop                                              *)

\* C15: when the fetch of a page came back absent, the loop body prints that
\* no page was found, appends nothing and keeps what earlier pages gave, then
\* reaches the rate-limit check; when the loop goes on from there, it is to
\* the next page index with the list still unchanged.
C15_AbsentPageSkipped ==
    [][/\ (pc = "process" /\ page.none)
            => /\ misses' = misses
               /\ log' = Append(log, "No page found")
               /\ pc' = "rate_limit"
               /\ page_num' = page_num
               /\ outcome' = outcome
       /\ (pc = "rate_limit" /\ page.none /\ pc' = "fetch")
            => /\ misses' = misses
               /\ page_num' = page_num + 1]_vars

\* page 0 came back absent, page 1 was fetched and its NEOs were returned
C15_Witness ==
    /\ pc = "done"
    /\ call.fn \in PageFns
    /\ outcome = Returned
    /\ Len(fetches) = 2
    /\ api.pages[1].status # GOOD
    /\ "No page found" \in { log[i] : i \in DOMAIN log }
    /\ result.value # <<>>

\* the list the loop body builds from the pages fetched so far
MissesOfFetched == ProcessNeos(FetchedNeos, call.n.val, <<>>).value

\* C16: the remaining-requests check is made once per fetched page and only
\* after that page was processed: while a page is being processed one check
\* fewer than fetches has been made, before the next fetch and at the return as
\* many as fetches, and the list returned, also on early termination, holds
\* the derived NEOs of every fetched page, the last one included.
C16_CheckAfterProcessing ==
    call.fn \in PageFns =>
        /\ pc \in {"process", "rate_limit"} => Len(sleeps) = Len(fetches) - 1
        /\ pc = "rate_limit" => misses = MissesOfFetched
        /\ pc = "fetch" => Len(sleeps) = Len(fetches)
        /\ (pc = "done" /\ outcome = Returned)
              => Len(sleeps) = Len(fetches) /\ result.value = MissesOfFetched

\* an early return at a page that reported zero remaining requests and listed NEOs
C16_Witness ==
    /\ pc = "done"
    /\ call.fn \in PageFns
    /\ outcome = Returned
    /\ remaining_requests = 0
    /\ call.wait_for_rate_limit = PyBool(FALSE)
    /\ Len(fetches) < call.total_n_pages.val
    /\ page.body # <<>>
    /\ result.value = MissesOfFetched

\* the five week fetches of call c, in the order of start_days
FiveWeekFetches(c) ==
    [k \in 1..Len(start_days) |->
        FeedFetch(StartDate(Segments(c)[1], Segments(c)[2], start_days[k]))]

\* C17 as stated: a month call whose input passed validation has, when it
\* ends, issued exactly the five week fetches for days 01, 08, 15, 22, 29 of
\* its month, in that order, whatever the fetches reported.
C17_AlwaysFiveFetches ==
    (pc = "done" /\ call.fn = "month_closest_approaches" /\ ArgError(call) = NoError)
        => fetches = FiveWeekFetches(call)

\* a fetched page lists a NEO with fewer records than the call's n
FewerRecordsThanN ==
    \E i \in DOMAIN FetchedNeos : Len(FetchedNeos[i].close_approach_data) < call.n.val

\* C18: when a page the call fetched lists a NEO with fewer close-approach
\* records than n, the call ends with IndexError and returns nothing, whatever
\* it had accumulated from earlier NEOs and pages.
C18_TooLargeNIsFatal ==
    (pc = "done" /\ call.fn \in PageFns /\ ArgError(call) = NoError /\ FewerRecordsThanN)
        => /\ outcome = IndexError
           /\ result = [value |-> <<>>, element_count |-> 0]

\* n = 2 met a NEO with one record on the second page, after derived NEOs had
\* been accumulated from the first
C18_Witness ==
    /\ pc = "done"
    /\ call.fn \in PageFns
    /\ call.n = PyInt(2)
    /\ outcome = IndexError
    /\ Len(fetches) = 2
    /\ misses # <<>>
    /\ result.value = <<>>

-----------------------------------------------------------------------------
(* The ranker on objects: close-approach records are dicts on the heap, a   *)
(* close_approach_data list holds their addresses                           *)

\* the records of a NEO whose close_approach_data holds addresses, by value
Deref(neo, h) ==
    [neo EXCEPT !.close_approach_data = [k \in DOMAIN @ |-> h[@[k]]]]

\* close_approach_data.sort(key=...) in place of sorted(): the list of the
\* source NEO itself is reordered
get_n_nearest_misses_objects_SortsInPlace(neo, n, h) ==
    LET close_approach_data == neo.close_approach_data
        keyed == [k \in DOMAIN close_approach_data |->
                    [miles |-> h[close_approach_data[k]].miles, at |-> close_approach_data[k]]]
        nearest_misses == [k \in DOMAIN keyed |-> SortedByMiles(keyed)[k].at]
        raised == n > Len(nearest_misses)
        copies == IF raised THEN Len(nearest_misses) + 1 ELSE n
        copied == Flatten([i \in 1..copies |->
                             [k \in DOMAIN close_approach_data |-> h[close_approach_data[k]]]])
    IN  [err |-> IF raised THEN IndexError ELSE NoError,
         value |-> IF raised THEN <<>>
                   ELSE [i \in 1..n |->
                           [neo EXCEPT !.close_approach_data = <<nearest_misses[i]>>]],
         neo |-> [neo EXCEPT !.close_approach_data = nearest_misses],
         heap |-> h \o copied]

\* get_n_nearest_misses on objects: sorted() builds a new list of the same
\* record objects; each copy.deepcopy(neo) allocates copies of all the
\* records, which the assignment of [nearest_misses[i]] then drops.  The
\* result names what is returned or raised, the argument as the call leaves
\* it, and the heap as the call leaves it
get_n_nearest_misses_objects(neo, n, h) ==
    LET close_approach_data == neo.close_approach_data
        keyed == [k \in DOMAIN close_approach_data |->
                    [miles |-> h[close_approach_data[k]].miles, at |-> close_approach_data[k]]]
        nearest_misses == [k \in DOMAIN keyed |-> SortedByMiles(keyed)[k].at]
        raised == n > Len(nearest_misses)
        copies == IF raised THEN Len(nearest_misses) + 1 ELSE n
        copied == Flatten([i \in 1..copies |->
                             [k \in DOMAIN close_approach_data |-> h[close_approach_data[k]]]])
    IN  [err |-> IF raised THEN IndexError ELSE NoError,
         value |-> IF raised THEN <<>>
                   ELSE [i \in 1..n |->
                           [neo EXCEPT !.close_approach_data = <<nearest_misses[i]>>]],
         neo |-> neo,
         heap |-> h \o copied]

GetNNearestMissesObjects ==
    /\ pc = "rank_objects"
    /\ LET r == get_n_nearest_misses_objects(RankedNeo, call.n.val, heap)
       IN  /\ outcome' = Ended(r.err)
           /\ result' = [value |-> r.value, element_count |-> 0]
           /\ page' = [page EXCEPT !.body = <<r.neo>>]
           /\ heap' = r.heap
    /\ pc' = "ranked"
    /\ UNCHANGED <<api, call, page_num, remaining_requests, misses, fetches,
                   sleeps, element_count, log, history>>

\* the caller assigns to a key of one derived NEO: derived[k]["id"] = 0
SetDerivedField ==
    /\ pc = "ranked"
    /\ \E k \in DOMAIN result.value : result' = [result EXCEPT !.value[k].id = 0]
    /\ pc' = "modified"
    /\ UNCHANGED <<api, call, page_num, page, remaining_requests, misses, fetches,
                   sleeps, element_count, log, outcome, history, heap>>

\* the caller assigns to a key of the record of one derived NEO:
\* derived[k]["close_approach_data"][0]["miss_distance"]["miles"] = "0"
SetDerivedRecordField ==
    /\ pc = "ranked"
    /\ \E k \in DOMAIN result.value :
        heap' = [heap EXCEPT ![result.value[k].close_approach_data[1]].miles = <<"0">>]
    /\ pc' = "modified"
    /\ UNCHANGED <<api, call, page_num, page, remaining_requests, misses, fetches,
                   sleeps, element_count, log, outcome, result, history>>

InitObjects ==
    /\ api = [pages |-> <<>>, weeks |-> <<>>, other_days |-> 0]
    /\ history = <<>>
    /\ heap \in SeqsUpTo(RankRecs, MaxRecs)
    /\ call \in RankCalls
    /\ pc = "rank_objects"
    /\ page_num = 0
    /\ page = [none |-> FALSE, body |-> <<Neo(1, [k \in 1..Len(heap) |-> k])>>,
               element_count |-> 0]
    /\ remaining_requests = 0 - 1
    /\ misses = <<>>
    /\ fetches = <<>>
    /\ sleeps = <<>>
    /\ element_count = 0
    /\ log = <<>>
    /\ outcome = NoError
    /\ result = [value |-> <<>>, element_count |-> 0]

NextObjects == GetNNearestMissesObjects \/ SetDerivedField \/ SetDerivedRecordField

SpecObjects == InitObjects /\ [][NextObjects]_vars

\* C20 as stated: the derived NEOs are independent deep copies, so an
\* assignment made through one derived NEO changes neither the source NEO nor
\* any other derived NEO.
C20_DerivedAreIndependent ==
    [][(pc = "ranked" /\ pc' = "modified")
        => /\ Deref(RankedNeo, heap)' = Deref(RankedNeo, heap)
           /\ Cardinality({ k \in DOMAIN result.value :
                              Deref(result.value[k], heap)' # Deref(result.value[k], heap) })
                <= 1]_vars

-----------------------------------------------------------------------------
(* More properties of month_closest_approaches                              *)

\* C21: the sequence month_closest_approaches returns is the NEOs the feed
\* listed for the weeks of days 01, 08, 15 and 22, all of them, week after
\* week and in listed order, followed by the NEOs listed for the week of day
\* 29 whose first approach date has the month segment of the input, in listed
\* order, and nothing else.
C21_WeeksThenFilteredLastWeek ==
    (pc = "done" /\ call.fn = "month_closest_approaches" /\ outcome = Returned) =>
        result.value =
            Flatten([k \in 1..(Len(start_days) - 1) |-> WeekAnswer(call, k).body])
              \o SelectSeq(WeekAnswer(call, Len(start_days)).body,
                           LAMBDA neo : MonthOf(neo) = Segments(call)[2])

\* two earlier weeks listed a NEO; the last week listed a NEO of the next
\* month before one of the target month
C21_Witness ==
    /\ pc = "done"
    /\ call.fn = "month_closest_approaches"
    /\ outcome = Returned
    /\ WeekAnswer(call, 1).body # <<>>
    /\ WeekAnswer(call, 4).body # <<>>
    /\ Len(page.body) = 2
    /\ MonthOf(page.body[1]) # Segments(call)[2]
    /\ MonthOf(page.body[2]) = Segments(call)[2]
    /\ Len(result.value) = 3

-----------------------------------------------------------------------------
(* get_closest_approach of the top-level asteroids_api_utils.py, run on the *)
(* records of a NEO and followed by the ranker on the same NEO              *)

\* the loop of get_closest_approach replacing the closest also on an equal distance
RECURSIVE ScanClosest_LastOnTies(_, _, _, _)
ScanClosest_LastOnTies(data, orbitting_earth_only, min_miss_distance, closest_approach) ==
    IF data = <<>> THEN <<closest_approach>>
    ELSE LET close_approach_data_point == Head(data)
             miss_distance == Float(close_approach_data_point.miles)
         IN  IF orbitting_earth_only /\ close_approach_data_point.orbiting_body # "Earth"
             THEN ScanClosest_LastOnTies(Tail(data), orbitting_earth_only,
                                         min_miss_distance, closest_approach)
             ELSE IF min_miss_distance = PyNone \/ miss_distance <= min_miss_distance.val
             THEN ScanClosest_LastOnTies(Tail(data), orbitting_earth_only,
                                         PyFloat(miss_distance), close_approach_data_point)
             ELSE ScanClosest_LastOnTies(Tail(data), orbitting_earth_only,
                                         min_miss_distance, closest_approach)

\* the loop of get_closest_approach over the data points still to visit
RECURSIVE ScanClosest(_, _, _, _)
ScanClosest(data, orbitting_earth_only, min_miss_distance, closest_approach) ==
    IF data = <<>> THEN <<closest_approach>>
    ELSE LET close_approach_data_point == Head(data)
             miss_distance == Float(close_approach_data_point.miles)
         IN  IF orbitting_earth_only /\ close_approach_data_point.orbiting_body # "Earth"
             THEN ScanClosest(Tail(data), orbitting_earth_only,
                              min_miss_distance, closest_approach)
             ELSE IF min_miss_distance = PyNone \/ miss_distance < min_miss_distance.val
             THEN ScanClosest(Tail(data), orbitting_earth_only,
                              PyFloat(miss_distance), close_approach_data_point)
             ELSE ScanClosest(Tail(data), orbitting_earth_only,
                              min_miss_distance, closest_approach)

\* get_closest_approach(close_approach_data, orbitting_earth_only)
get_closest_approach(close_approach_data, orbitting_earth_only) ==
    ScanClosest(close_approach_data, orbitting_earth_only, PyNone, PyNone)

ClosestRecs == { Rec(m, DateDec, b) : m \in MilesSet, b \in {"Earth", "Mars"} }

ClosestNeos == { Neo(1, cad) : cad \in SeqsUpTo(ClosestRecs, MaxRecs) }

\* one call of get_closest_approach, then get_n_nearest_misses(neo, 1)
ClosestCalls ==
    { [fn |-> "get_closest_approach", orbitting_earth_only |-> b, n |-> PyInt(1)] :
        b \in BOOLEAN }

GetClosestApproach ==
    /\ pc = "closest"
    /\ misses' = get_closest_approach(RankedNeo.close_approach_data, call.orbitting_earth_only)
    /\ pc' = "rank"
    /\ UNCHANGED <<api, call, page_num, page, remaining_requests, fetches, sleeps,
                   element_count, log, outcome, result, history, heap>>

InitClosest ==
    /\ api = [pages |-> <<>>, weeks |-> <<>>, other_days |-> 0]
    /\ history = <<>>
    /\ heap = <<>>
    /\ call \in ClosestCalls
    /\ pc = "closest"
    /\ page_num = 0
    /\ page \in { [none |-> FALSE, body |-> <<neo>>, element_count |-> 0] : neo \in ClosestNeos }
    /\ remaining_requests = 0 - 1
    /\ misses = <<>>
    /\ fetches = <<>>
    /\ sleeps = <<>>
    /\ element_count = 0
    /\ log = <<>>
    /\ outcome = NoError
    /\ result = [value |-> <<>>, element_count |-> 0]

NextClosest == GetClosestApproach \/ GetNNearestMisses

SpecClosest == InitClosest /\ [][NextClosest]_vars

\* the records get_closest_approach considers, in input order
Considered ==
    SelectSeq(RankedNeo.close_approach_data,
              LAMBDA rec : call.orbitting_earth_only => rec.orbiting_body = "Earth")

\* rec is the first record of data with the minimum miles distance
IsFirstMinimum(data, rec) ==
    \E j \in DOMAIN data :
        /\ data[j] = rec
        /\ \A i \in DOMAIN data : Float(data[i].miles) >= Float(rec.miles)
        /\ \A i \in 1..(j - 1) : Float(data[i].miles) > Float(rec.miles)

C23_ClosestIsRankOne ==
    (pc = "ranked" /\ ~call.orbitting_earth_only) =>
        IF RankedNeo.close_approach_data = <<>>
        THEN misses = <<PyNone>> /\ outcome = IndexError
        ELSE /\ outcome = Returned
             /\ result.value[1].close_approach_data = misses

\* two different records tie on the minimum distance, after a farther one
C23_Witness ==
    /\ pc = "ranked"
    /\ ~call.orbitting_earth_only
    /\ outcome = Returned
    /\ Len(RankedNeo.close_approach_data) = 3
    /\ RankedNeo.close_approach_data[1].miles = Str2
    /\ RankedNeo.close_approach_data[2].miles = Str1
    /\ RankedNeo.close_approach_data[3].miles = Str1p0
    /\ misses = <<RankedNeo.close_approach_data[2]>>
    /\ result.value[1].close_approach_data = misses

-----------------------------------------------------------------------------
(* More properties of the ranker on objects                                 *)

\* C24: a call of get_n_nearest_misses, whether it returns or raises, leaves
\* the NEO it was given as it was: its close_approach_data list holds the same
\* record objects in the same order, and every record object that existed
\* before the call has the value it had.
C24_InputUnchanged ==
    [][pc = "rank_objects"
        => /\ page' = page
           /\ \A a \in DOMAIN heap : heap'[a] = heap[a]]_vars

\* the two nearest of three records that arrive farthest first were returned
C24_Witness ==
    /\ pc = "ranked"
    /\ outcome = Returned
    /\ call.n = PyInt(2)
    /\ Len(RankedNeo.close_approach_data) = 3
    /\ Float(heap[1].miles) > Float(heap[2].miles)
    /\ Float(heap[2].miles) > Float(heap[3].miles)
    /\ RankedNeo.close_approach_data = <<1, 2, 3>>
    /\ result.value[1].close_approach_data = <<3>>

====
